---- MODULE Spec2Model ----
(***************************************************************************)
(* Model of src/main.py: the FastAPI handler generate_ai_response, the     *)
(* module-level Gemini client handle, get_db_connection and the            *)
(* conversations table the handler reads and appends to.                   *)
(*                                                                         *)
(* Each request is one run of the handler.  The handler is cut at the      *)
(* calls that leave the process (connect, SELECT, the awaited AI call,     *)
(* INSERT, COMMIT); requests interleave between those calls, as they do    *)
(* across the await and across worker processes sharing the database.      *)
(***************************************************************************)
EXTENDS Integers, Sequences, FiniteSets, TLC

\* ---------------------------------------------------------------- bounds
NReq == 2          \* number of requests served
MaxInit == 8       \* rows already in conversations at start: 0..MaxInit

\* ------------------------------------------------------ program constants
HistoryLimit == 5  \* LIMIT 5

SYSTEM_INSTRUCTION ==
    "You are a helpful and friendly assistant. Use the provided chat history to answer the current prompt concisely."

Reqs == 1..NReq
Users == {"u1", "u2"}
Sessions == {"s1", "s2"}

NoText == <<"none", 0>>

\* ----------------------------------------------------------- HTTP results
NoResult == [kind |-> "pending", status |-> 0, detail |-> "", text |-> NoText]

AIUnavailable ==
    [kind |-> "error", status |-> 503,
     detail |-> "AI Service not available (Check GEMINI_API_KEY).",
     text |-> NoText]

DBConnError ==
    [kind |-> "error", status |-> 500,
     detail |-> "Database connection error (Check DATABASE_URL).",
     text |-> NoText]

InternalError ==
    [kind |-> "error", status |-> 500,
     detail |-> "Internal server error during AI processing.",
     text |-> NoText]

OkResponse(t) == [kind |-> "response", status |-> 200, detail |-> "", text |-> t]

Cancelled == [kind |-> "cancelled", status |-> 0, detail |-> "", text |-> NoText]

\* ------------------------------------------------------------------ state
VARIABLES
    client,        \* TRUE iff the module-level Gemini client was created
    DATABASE_URL,  \* TRUE iff DATABASE_URL is set
    store,         \* committed rows of the conversations table
    clock,         \* last created_at handed out by the store
    rq             \* per request: the handler's locals and its position

vars == <<client, DATABASE_URL, store, clock, rq>>

\* rows already present: row 2 is another session, row 3 another user
InitRow(i) ==
    [created_at |-> i,
     user_id |-> IF i = 3 THEN "u2" ELSE "u1",
     session_id |-> IF i = 2 THEN "s2" ELSE "s1",
     prompt |-> <<"p", i>>,
     response |-> <<"r", i>>,
     by |-> 0]

InitReq ==
    [pc |-> "idle",
     user_id |-> "u1", session_id |-> "s1", prompt |-> NoText,
     conn |-> "None",
     history_records |-> <<>>,
     contents |-> <<>>,
     system_instruction |-> "",
     ai_response_text |-> NoText,
     pending |-> {},
     result |-> NoResult,
     \* history (not program state): what the run did
     snap |-> {},
     ai_calls |-> 0,
     inserts |-> 0,
     logged |-> 0,
     cause |-> "none"]

Init ==
    /\ client \in BOOLEAN
    /\ DATABASE_URL \in BOOLEAN
    /\ \E n \in 0..MaxInit :
          /\ store = {InitRow(i) : i \in 1..n}
          /\ clock = n
    /\ rq = [r \in Reqs |-> InitReq]

\* --------------------------------------------------------- pure functions
Min(a, b) == IF a < b THEN a ELSE b

\* variant: the filter on session_id is missing
WhereUserOnly(rows, u, s) == {t \in rows : t.user_id = u}

\* WHERE user_id = %s AND session_id = %s
Where(rows, u, s) == {t \in rows : t.user_id = u /\ t.session_id = s}

\* ORDER BY created_at DESC
RECURSIVE OrderByCreatedAtDesc(_)
OrderByCreatedAtDesc(rows) ==
    IF rows = {} THEN <<>>
    ELSE LET m == CHOOSE x \in rows : \A y \in rows : y.created_at <= x.created_at
         IN  <<m>> \o OrderByCreatedAtDesc(rows \ {m})

\* variant: takes the first n of the whole table order reversed (oldest rows)
LimitOldest(seq, n) == SubSeq(seq, Len(seq) - Min(n, Len(seq)) + 1, Len(seq))

\* LIMIT n
Limit(seq, n) == SubSeq(seq, 1, Min(n, Len(seq)))

\* SELECT prompt, response ... : the tuples fetchall() returns
SelectHistory(rows, u, s) ==
    LET hit == Limit(OrderByCreatedAtDesc(Where(rows, u, s)), HistoryLimit)
    IN  [i \in 1..Len(hit) |-> <<hit[i].prompt, hit[i].response>>]

\* reversed(history_records)
Reversed(seq) == [i \in 1..Len(seq) |-> seq[Len(seq) + 1 - i]]

UserMsg(t) == [role |-> "user", text |-> t]
ModelMsg(t) == [role |-> "model", text |-> t]

\* the append loop over the records it is given
RECURSIVE AppendTurns(_)
AppendTurns(recs) ==
    IF recs = <<>> THEN <<>>
    ELSE <<UserMsg(Head(recs)[1]), ModelMsg(Head(recs)[2])>> \o AppendTurns(Tail(recs))

\* variant: the loop runs over history_records as fetched, newest first
ChatHistoryNoReverse(history_records) == AppendTurns(history_records)

\* chat_history: for prompt, response in reversed(history_records)
ChatHistory(history_records) == AppendTurns(Reversed(history_records))

\* contents = chat_history + [current prompt]
Contents(history_records, prompt) ==
    ChatHistory(history_records) \o <<UserMsg(prompt)>>

\* variant: the connection is not closed on exit
FinallyNoClose(conn) == conn

\* finally: if conn: conn.close()
Finally(conn) == IF conn = "open" THEN "closed" ELSE conn

\* the handler is left: the finally block runs, close() drops what was not
\* committed, and the locals of the call are gone
Leave(req) ==
    [req EXCEPT !.conn = Finally(@),
                !.pending = {},
                !.history_records = <<>>,
                !.contents = <<>>,
                !.system_instruction = "",
                !.snap = {}]

\* variant: the error answer carries what was generated so far
ExceptExceptionPartial(req, why) ==
    Leave([req EXCEPT !.pc = "failed",
                      !.result = [InternalError EXCEPT !.text = req.ai_response_text],
                      !.logged = @ + 1,
                      !.cause = why])

\* except Exception as e: print(...); raise HTTPException(500); finally
ExceptException(req, why) ==
    Leave([req EXCEPT !.pc = "failed",
                      !.result = InternalError,
                      !.logged = @ + 1,
                      !.cause = why])

\* return {"response": ai_response_text}; finally
ReturnResponse(req) ==
    Leave([req EXCEPT !.pc = "done",
                      !.result = OkResponse(req.ai_response_text)])

\* the row INSERT ... VALUES (user_id, session_id, prompt, ai_response_text)
\* adds; created_at is given by the store
NewRow(req, r, at) ==
    [created_at |-> at,
     user_id |-> req.user_id,
     session_id |-> req.session_id,
     prompt |-> req.prompt,
     response |-> req.ai_response_text,
     by |-> r]

\* the (user_id, session_id) pairs request r may carry: the first request
\* addresses the session that has history, the others any of three pairs
Targets(r) ==
    IF r = 1 THEN {<<"u1", "s1">>}
    ELSE {<<"u1", "s1">>, <<"u1", "s2">>, <<"u2", "s1">>}

\* ----------------------------------------------------------------- actions
\* variant: the handler does not test the client handle
StartNoCheck(r, u, s) ==
    /\ rq[r].pc = "idle"
    /\ <<u, s>> \in Targets(r)
    /\ rq' = [rq EXCEPT ![r].pc = "connect",
                        ![r].user_id = u, ![r].session_id = s,
                        ![r].prompt = <<"q", r>>]
    /\ UNCHANGED <<client, DATABASE_URL, store, clock>>

\* the request arrives; `if not client: raise HTTPException(503)`
Start(r, u, s) ==
    /\ rq[r].pc = "idle"
    /\ <<u, s>> \in Targets(r)
    /\ IF ~client
       THEN rq' = [rq EXCEPT ![r].pc = "failed",
                             ![r].user_id = u, ![r].session_id = s,
                             ![r].prompt = <<"q", r>>,
                             ![r].result = AIUnavailable,
                             ![r].cause = "ai_unconfigured"]
       ELSE rq' = [rq EXCEPT ![r].pc = "connect",
                             ![r].user_id = u, ![r].session_id = s,
                             ![r].prompt = <<"q", r>>]
    /\ UNCHANGED <<client, DATABASE_URL, store, clock>>

\* variant: a missing connection is answered with status 503
Connect503(r) ==
    /\ rq[r].pc = "connect"
    /\ \/ /\ ~DATABASE_URL
          /\ rq' = [rq EXCEPT ![r].pc = "failed",
                              ![r].result = [DBConnError EXCEPT !.status = 503],
                              ![r].cause = "db_unconfigured"]
       \/ /\ DATABASE_URL
          /\ rq' = [rq EXCEPT ![r].pc = "failed",
                              ![r].result = [DBConnError EXCEPT !.status = 503],
                              ![r].cause = "db_connect"]
       \/ /\ DATABASE_URL
          /\ rq' = [rq EXCEPT ![r].pc = "load", ![r].conn = "open"]
    /\ UNCHANGED <<client, DATABASE_URL, store, clock>>

\* variant: the AI call is started as soon as the connection is there,
\* before the history is read
ConnectThenGenerate(r) ==
    /\ rq[r].pc = "connect"
    /\ \/ /\ ~DATABASE_URL
          /\ rq' = [rq EXCEPT ![r].pc = "failed",
                              ![r].result = DBConnError,
                              ![r].cause = "db_unconfigured"]
       \/ /\ DATABASE_URL
          /\ rq' = [rq EXCEPT ![r].pc = "failed",
                              ![r].result = DBConnError,
                              ![r].cause = "db_connect"]
       \/ /\ DATABASE_URL
          /\ rq' = [rq EXCEPT ![r].pc = "await_ai",
                              ![r].conn = "open",
                              ![r].contents = Contents(<<>>, rq[r].prompt),
                              ![r].system_instruction = SYSTEM_INSTRUCTION,
                              ![r].ai_calls = @ + 1]
    /\ UNCHANGED <<client, DATABASE_URL, store, clock>>

\* conn = get_db_connection(); `if not conn: raise HTTPException(500)`
Connect(r) ==
    /\ rq[r].pc = "connect"
    /\ \/ /\ ~DATABASE_URL
          /\ rq' = [rq EXCEPT ![r].pc = "failed",
                              ![r].result = DBConnError,
                              ![r].cause = "db_unconfigured"]
       \/ /\ DATABASE_URL          \* psycopg2.connect raises
          /\ rq' = [rq EXCEPT ![r].pc = "failed",
                              ![r].result = DBConnError,
                              ![r].cause = "db_connect"]
       \/ /\ DATABASE_URL
          /\ rq' = [rq EXCEPT ![r].pc = "load", ![r].conn = "open"]
    /\ UNCHANGED <<client, DATABASE_URL, store, clock>>

\* variant: a failed SELECT is treated as an empty history
LoadHistoryDegrade(r) ==
    /\ rq[r].pc = "load"
    /\ \/ rq' = [rq EXCEPT ![r].pc = "await_ai",
                           ![r].contents = Contents(<<>>, rq[r].prompt),
                           ![r].system_instruction = SYSTEM_INSTRUCTION,
                           ![r].logged = @ + 1,
                           ![r].cause = "history_query",
                           ![r].ai_calls = @ + 1]
       \/ LET h == SelectHistory(store, rq[r].user_id, rq[r].session_id)
          IN  rq' = [rq EXCEPT ![r].pc = "await_ai",
                               ![r].history_records = h,
                               ![r].contents = Contents(h, rq[r].prompt),
                               ![r].system_instruction = SYSTEM_INSTRUCTION,
                               ![r].snap = store,
                               ![r].ai_calls = @ + 1]
    /\ UNCHANGED <<client, DATABASE_URL, store, clock>>

\* the SELECT, the context assembly and the start of the AI call
LoadHistory(r) ==
    /\ rq[r].pc = "load"
    /\ \/ \* cur.execute / fetchall raises
          rq' = [rq EXCEPT ![r] = ExceptException(@, "history_query")]
       \/ LET h == SelectHistory(store, rq[r].user_id, rq[r].session_id)
          IN  rq' = [rq EXCEPT ![r].pc = "await_ai",
                               ![r].history_records = h,
                               ![r].contents = Contents(h, rq[r].prompt),
                               ![r].system_instruction = SYSTEM_INSTRUCTION,
                               ![r].snap = store,
                               ![r].ai_calls = @ + 1]
    /\ UNCHANGED <<client, DATABASE_URL, store, clock>>

\* the awaited call returns; ai_response_text = response.text
AISucceed(r) ==
    /\ rq[r].pc = "await_ai"
    /\ rq' = [rq EXCEPT ![r].pc = "insert",
                        ![r].ai_response_text = <<"a", r>>]
    /\ UNCHANGED <<client, DATABASE_URL, store, clock>>

\* variant: a failure of the AI call is answered like a missing client
AIFail503(r) ==
    /\ rq[r].pc = "await_ai"
    /\ rq' = [rq EXCEPT ![r] =
                  [ExceptException(@, "ai_runtime") EXCEPT !.result = AIUnavailable]]
    /\ UNCHANGED <<client, DATABASE_URL, store, clock>>

\* variant: a failed AI call is issued once more before the failure is raised
AIFailRetry(r) ==
    /\ rq[r].pc = "await_ai"
    /\ \/ /\ rq[r].ai_calls < 2
          /\ rq' = [rq EXCEPT ![r].ai_calls = @ + 1]
       \/ rq' = [rq EXCEPT ![r] = ExceptException(@, "ai_runtime")]
    /\ UNCHANGED <<client, DATABASE_URL, store, clock>>

\* variant: the prompt of a failed generation is recorded without a response
AIFailRecords(r) ==
    /\ rq[r].pc = "await_ai"
    /\ store' = store \cup {NewRow(rq[r], r, clock + 1)}
    /\ clock' = clock + 1
    /\ rq' = [rq EXCEPT ![r] = ExceptException(@, "ai_runtime")]
    /\ UNCHANGED <<client, DATABASE_URL>>

\* the awaited call raises: except Exception -> 500, finally close
AIFail(r) ==
    /\ rq[r].pc = "await_ai"
    /\ rq' = [rq EXCEPT ![r] = ExceptException(@, "ai_runtime")]
    /\ UNCHANGED <<client, DATABASE_URL, store, clock>>

\* variant: cancellation only drops the reply; the turn is still written
CancelDetached(r) ==
    /\ rq[r].pc = "await_ai"
    /\ store' = store \cup {NewRow([rq[r] EXCEPT !.ai_response_text = <<"a", r>>],
                                   r, clock + 1)}
    /\ clock' = clock + 1
    /\ rq' = [rq EXCEPT ![r] = Leave([@ EXCEPT !.pc = "cancelled",
                                               !.result = Cancelled,
                                               !.inserts = @ + 1,
                                               !.cause = "cancelled"])]
    /\ UNCHANGED <<client, DATABASE_URL>>

\* the task is cancelled at the await: CancelledError is not an Exception,
\* so only the finally block runs
Cancel(r) ==
    /\ rq[r].pc = "await_ai"
    /\ rq' = [rq EXCEPT ![r] = Leave([@ EXCEPT !.pc = "cancelled",
                                               !.result = Cancelled,
                                               !.cause = "cancelled"])]
    /\ UNCHANGED <<client, DATABASE_URL, store, clock>>

\* variant: the INSERT is executed twice
InsertTwice(r) ==
    /\ rq[r].pc = "insert"
    /\ \/ /\ rq' = [rq EXCEPT ![r] =
                        ExceptException([@ EXCEPT !.inserts = @ + 1], "insert")]
          /\ UNCHANGED clock
       \/ /\ clock' = clock + 2
          /\ rq' = [rq EXCEPT ![r].pc = "commit",
                              ![r].inserts = @ + 2,
                              ![r].pending = {NewRow(rq[r], r, clock + 1),
                                              NewRow(rq[r], r, clock + 2)}]
    /\ UNCHANGED <<client, DATABASE_URL, store>>

\* save_cur.execute(INSERT ...)
Insert(r) ==
    /\ rq[r].pc = "insert"
    /\ \/ \* execute raises
          /\ rq' = [rq EXCEPT ![r] =
                        ExceptException([@ EXCEPT !.inserts = @ + 1], "insert")]
          /\ UNCHANGED clock
       \/ /\ clock' = clock + 1
          /\ rq' = [rq EXCEPT ![r].pc = "commit",
                              ![r].inserts = @ + 1,
                              ![r].pending = {NewRow(rq[r], r, clock + 1)}]
    /\ UNCHANGED <<client, DATABASE_URL, store>>

\* variant: the turn replaces what the session had (an upsert on the session)
CommitUpsert(r) ==
    /\ rq[r].pc = "commit"
    /\ \/ /\ store' = {t \in store : <<t.user_id, t.session_id>>
                                        # <<rq[r].user_id, rq[r].session_id>>}
                         \cup rq[r].pending
          /\ rq' = [rq EXCEPT ![r] = ReturnResponse(@)]
       \/ /\ UNCHANGED store
          /\ rq' = [rq EXCEPT ![r] = ExceptException(@, "commit")]
       \/ /\ store' = store \cup rq[r].pending
          /\ rq' = [rq EXCEPT ![r] = ExceptException(@, "after_commit")]
    /\ UNCHANGED <<client, DATABASE_URL, clock>>

\* variant: a failed commit is logged and the text is returned all the same
CommitBestEffort(r) ==
    /\ rq[r].pc = "commit"
    /\ \/ /\ store' = store \cup rq[r].pending
          /\ rq' = [rq EXCEPT ![r] = ReturnResponse(@)]
       \/ /\ UNCHANGED store
          /\ rq' = [rq EXCEPT ![r] =
                        ReturnResponse([@ EXCEPT !.logged = @ + 1,
                                                 !.cause = "commit"])]
       \/ /\ store' = store \cup rq[r].pending
          /\ rq' = [rq EXCEPT ![r] =
                        ReturnResponse([@ EXCEPT !.logged = @ + 1,
                                                 !.cause = "after_commit"])]
    /\ UNCHANGED <<client, DATABASE_URL, clock>>

\* conn.commit(); save_cur.close(); return {"response": ai_response_text}
Commit(r) ==
    /\ rq[r].pc = "commit"
    /\ \/ \* commit applied, response returned
          /\ store' = store \cup rq[r].pending
          /\ rq' = [rq EXCEPT ![r] = ReturnResponse(@)]
       \/ \* commit raises, nothing applied; close() drops the transaction
          /\ UNCHANGED store
          /\ rq' = [rq EXCEPT ![r] = ExceptException(@, "commit")]
       \/ \* commit applied by the server, then an exception on the way back
          \* (lost acknowledgement, or save_cur.close() raising)
          /\ store' = store \cup rq[r].pending
          /\ rq' = [rq EXCEPT ![r] = ExceptException(@, "after_commit")]
    /\ UNCHANGED <<client, DATABASE_URL, clock>>

Next ==
    \/ \E r \in Reqs, u \in Users, s \in Sessions : Start(r, u, s)
    \/ \E r \in Reqs : Connect(r)
    \/ \E r \in Reqs : LoadHistory(r)
    \/ \E r \in Reqs : AISucceed(r)
    \/ \E r \in Reqs : AIFail(r)
    \/ \E r \in Reqs : Cancel(r)
    \/ \E r \in Reqs : Insert(r)
    \/ \E r \in Reqs : Commit(r)

Spec == Init /\ [][Next]_vars

\* the steps of request r once it has arrived, every external call of it
\* returning or raising
Run(r) ==
    \/ Connect(r)
    \/ LoadHistory(r)
    \/ AISucceed(r)
    \/ AIFail(r)
    \/ Insert(r)
    \/ Commit(r)

\* the handler with no cancellation: every awaited call returns or raises
NextReturns ==
    \/ \E r \in Reqs, u \in Users, s \in Sessions : Start(r, u, s)
    \/ \E r \in Reqs : Connect(r)
    \/ \E r \in Reqs : LoadHistory(r)
    \/ \E r \in Reqs : AISucceed(r)
    \/ \E r \in Reqs : AIFail(r)
    \/ \E r \in Reqs : Insert(r)
    \/ \E r \in Reqs : Commit(r)

\* the start states used for termination: the table empty or at its bound
\* (what the table holds does not decide whether a handler ends)
LiveInit ==
    /\ client \in BOOLEAN
    /\ DATABASE_URL \in BOOLEAN
    /\ \E n \in {0, MaxInit} :
          /\ store = {InitRow(i) : i \in 1..n}
          /\ clock = n
    /\ rq = [r \in Reqs |-> InitReq]

\* the event loop resumes every handler whose call has come back
LiveSpec ==
    /\ LiveInit
    /\ [][NextReturns]_vars
    /\ \A r \in Reqs : WF_vars(Run(r))

\* ------------------------------------------------------------ vocabulary
Terminal(r) == rq[r].pc \in {"done", "failed", "cancelled"}

\* the state of the request's state machine the handler is in
State(req) ==
    CASE req.pc = "idle" -> "Received"
      [] req.pc \in {"connect", "load"} -> "LoadingHistory"
      [] req.pc = "await_ai" -> "Generating"
      [] req.pc \in {"insert", "commit"} -> "Persisting"
      [] req.pc = "done" -> "Done"
      [] OTHER -> "Failed"    \* an HTTPException, or the abort by cancellation

\* the AI call has been issued and the handler has not been left
InFlight(r) == rq[r].pc \in {"await_ai", "insert", "commit"}

TypeOK ==
    /\ client \in BOOLEAN
    /\ DATABASE_URL \in BOOLEAN
    /\ clock \in 0..(MaxInit + NReq)
    /\ \A t \in store : t.created_at \in 1..clock
    /\ \A r \in Reqs :
          rq[r].pc \in {"idle", "connect", "load", "await_ai", "insert",
                        "commit", "done", "failed", "cancelled"}

AISucceeded(r) == rq[r].ai_response_text # NoText

PersistFailed(r) == rq[r].cause \in {"insert", "commit", "after_commit"}

StoreFailedAtLoad(r) ==
    rq[r].cause \in {"db_unconfigured", "db_connect", "history_query"}

\* rows of the table, committed or not, written by request r
RowsBy(r) == {t \in store \cup rq[r].pending : t.by = r}

\* the turn request r is about
TurnOf(r) ==
    [user_id |-> rq[r].user_id, session_id |-> rq[r].session_id,
     prompt |-> rq[r].prompt, response |-> rq[r].ai_response_text]

TurnFields(t) ==
    [user_id |-> t.user_id, session_id |-> t.session_id,
     prompt |-> t.prompt, response |-> t.response]

\* the rows of r's session that existed when r read its history
Prior(r) == Where(rq[r].snap, rq[r].user_id, rq[r].session_id)

Newer(t, rows) == {x \in rows : x.created_at > t.created_at}

\* the HistoryLimit most recently created rows of r's session at its read
Window(r) == {t \in Prior(r) : Cardinality(Newer(t, Prior(r))) < HistoryLimit}

\* position of t among rows, oldest = 1
Rank(t, rows) == Cardinality({x \in rows : x.created_at <= t.created_at})

C2_NoTurnOnAIFailure ==
    \A r \in Reqs :
        rq[r].cause = "ai_runtime" =>
            /\ rq[r].inserts = 0
            /\ RowsBy(r) = {}
            /\ rq[r].ai_calls = 1
            /\ rq[r].pc = "failed"

C2_Witness ==
    \E r \in Reqs : rq[r].cause = "ai_runtime" /\ rq[r].ai_calls = 1

\* ------------------------------------------------------------------ C3
\* C3: a request performs at most one insert; it has performed one exactly
\* when its AI call succeeded and it has passed the insert step; the row it
\* wrote is its own turn (user, session, prompt, generated text); once all
\* requests have ended, the insert attempts number the successful
\* generations.
C3_OneInsertPerGeneration ==
    /\ \A r \in Reqs :
          /\ rq[r].inserts \in {0, 1}
          /\ (rq[r].inserts = 1) <=> (AISucceeded(r) /\ rq[r].pc # "insert")
          /\ Cardinality(RowsBy(r)) <= rq[r].inserts
          /\ \A t \in RowsBy(r) : TurnFields(t) = TurnOf(r)
          /\ rq[r].pc \in {"commit", "done"} => Cardinality(RowsBy(r)) = 1
    /\ (\A r \in Reqs : Terminal(r)) =>
          Cardinality({r \in Reqs : rq[r].inserts = 1})
              = Cardinality({r \in Reqs : AISucceeded(r)})

C3_Witness ==
    \A r \in Reqs : rq[r].pc = "done" /\ rq[r].inserts = 1

\* ------------------------------------------------------------------ C4
\* C4: a request that could not get a connection, or whose history query
\* failed, has failed without any AI call and without writing any row.
C4_StoreDownNoAICall ==
    \A r \in Reqs :
        StoreFailedAtLoad(r) =>
            /\ rq[r].pc = "failed"
            /\ rq[r].result.kind = "error"
            /\ rq[r].ai_calls = 0
            /\ rq[r].contents = <<>>
            /\ rq[r].inserts = 0
            /\ RowsBy(r) = {}

C4_Witness ==
    \E r \in Reqs, q \in Reqs :
        /\ rq[r].cause = "db_connect"
        /\ rq[q].cause = "history_query"

C6_NoClientFailsFast ==
    ~client =>
        \A r \in Reqs :
            /\ rq[r].pc \in {"idle", "failed"}
            /\ rq[r].pc = "failed" => rq[r].result = AIUnavailable
            /\ rq[r].conn = "None"
            /\ rq[r].history_records = <<>>
            /\ rq[r].contents = <<>>
            /\ rq[r].ai_calls = 0
            /\ rq[r].inserts = 0
            /\ RowsBy(r) = {}

C6_Witness ==
    /\ ~client
    /\ store # {}
    /\ \A r \in Reqs : rq[r].pc = "failed" /\ rq[r].result.status = 503

\* ------------------------------------------------------------------ C7
\* C7: while a request's AI call is out or has returned, what it sent is the fixed system
\* instruction and a message list of 2N+1 messages, N the number of
\* retrieved turns: the k-th oldest retrieved turn supplies message 2k-1
\* (user, its prompt) and message 2k (model, its response), and the last
\* message is the user message with the current prompt.
C7_ContextOrder ==
    \A r \in Reqs :
        InFlight(r) =>
            LET W == Window(r)
                N == Cardinality(W)
                c == rq[r].contents
            IN  /\ rq[r].system_instruction = SYSTEM_INSTRUCTION
                /\ Len(c) = 2 * N + 1
                /\ N = Len(rq[r].history_records)
                /\ \A t \in W :
                      /\ c[2 * Rank(t, W) - 1] = UserMsg(t.prompt)
                      /\ c[2 * Rank(t, W)] = ModelMsg(t.response)
                /\ c[2 * N + 1] = UserMsg(rq[r].prompt)

C7_Witness ==
    \E r \in Reqs, q \in Reqs :
        /\ InFlight(r) /\ Len(rq[r].contents) = 2 * 1 + 1
        /\ InFlight(q) /\ Len(rq[q].contents) = 2 * HistoryLimit + 1

\* ------------------------------------------------------------------ C8
\* C8: the history a request in flight uses holds min(5, n) turns, n being the number
\* of turns its session had at the read; a turn of the session is used
\* exactly when fewer than 5 turns of the session are newer than it; the
\* used turns stand oldest first.
C8_BoundedWindow ==
    \A r \in Reqs :
        InFlight(r) =>
            LET used == Reversed(rq[r].history_records)
                n == Cardinality(Prior(r))
            IN  /\ Len(used) = Min(HistoryLimit, n)
                /\ \A t \in Prior(r) :
                      (\E i \in 1..Len(used) : used[i] = <<t.prompt, t.response>>)
                          <=> Cardinality(Newer(t, Prior(r))) < HistoryLimit
                /\ \A i \in 1..Len(used), j \in 1..Len(used) :
                      i < j =>
                          \E a \in Prior(r), b \in Prior(r) :
                              /\ used[i] = <<a.prompt, a.response>>
                              /\ used[j] = <<b.prompt, b.response>>
                              /\ a.created_at < b.created_at
                /\ SubSeq(rq[r].contents, 1, Len(rq[r].contents) - 1)
                      = AppendTurns(used)

C8_Witness ==
    \E r \in Reqs :
        /\ InFlight(r)
        /\ Cardinality(Prior(r)) > HistoryLimit
        /\ Len(rq[r].history_records) = HistoryLimit

\* ------------------------------------------------------------------ C9
\* C9: a request cancelled while waiting for the AI call has executed no
\* insert and no commit: it has no row, committed or pending, and no
\* generated text.
C9_CancelledPersistsNothing ==
    \A r \in Reqs :
        rq[r].pc = "cancelled" =>
            /\ rq[r].inserts = 0
            /\ RowsBy(r) = {}
            /\ ~AISucceeded(r)
            /\ rq[r].result.kind = "cancelled"

C9_Witness ==
    \E r \in Reqs : rq[r].pc = "cancelled" /\ rq[r].ai_calls = 1

\* ------------------------------------------------------------------ C10
\* C10: a request that has ended holds no open connection: if it acquired
\* one it is closed, whatever the exit path.
C10_ConnectionReleased ==
    \A r \in Reqs :
        Terminal(r) =>
            /\ rq[r].conn # "open"
            /\ rq[r].cause \notin {"ai_unconfigured", "db_unconfigured", "db_connect"}
                  => rq[r].conn = "closed"

C10_Witness ==
    \E r \in Reqs, q \in Reqs :
        /\ rq[r].pc = "cancelled" /\ rq[r].conn = "closed"
        /\ rq[q].pc = "failed" /\ rq[q].cause = "commit" /\ rq[q].conn = "closed"

\* ------------------------------------------------------------------ C11
\* C11: a request whose AI call raised while the client is configured is
\* answered with the Internal error (500); a request that found no client
\* is answered with the service-unavailable error (503); the two answers
\* differ in status.
C11_AIRuntimeVsUnconfigured ==
    \A r \in Reqs :
        /\ rq[r].cause = "ai_runtime" =>
              /\ client
              /\ rq[r].result = InternalError
              /\ rq[r].result.status = 500
              /\ rq[r].result.status # AIUnavailable.status
        /\ rq[r].cause = "ai_unconfigured" =>
              /\ ~client
              /\ rq[r].result = AIUnavailable
              /\ rq[r].result.status = 503
              /\ rq[r].result.status # InternalError.status

C11_Witness ==
    \A r \in Reqs : rq[r].cause = "ai_runtime" /\ rq[r].result.status = 500

\* ------------------------------------------------------------------ C14
\* C14: a request calls the AI at most once; a request whose AI call
\* failed has called it exactly once and has failed with an error; a
\* request that failed before generation has called it zero times.
C14_AtMostOneAICall ==
    \A r \in Reqs :
        /\ rq[r].ai_calls \in {0, 1}
        /\ rq[r].ai_calls = 1 <=> rq[r].pc \notin {"idle", "connect", "load"}
                                   /\ ~StoreFailedAtLoad(r)
                                   /\ rq[r].cause # "ai_unconfigured"
        /\ rq[r].cause = "ai_runtime" =>
              /\ rq[r].ai_calls = 1
              /\ rq[r].pc = "failed"
              /\ rq[r].result.kind = "error"
              /\ ~AISucceeded(r)

C14_Witness ==
    \E r \in Reqs, q \in Reqs :
        /\ rq[r].cause = "ai_runtime" /\ rq[r].ai_calls = 1
        /\ rq[q].cause = "history_query" /\ rq[q].ai_calls = 0

\* ------------------------------------------------------------------ C12
\* what the caller of an ended request holds: the generated text, or one
\* of the three errors with no text
Outcome(r) ==
    /\ rq[r].result \in {OkResponse(rq[r].ai_response_text),
                         AIUnavailable, DBConnError, InternalError}
    /\ rq[r].result.kind = "response" <=> rq[r].pc = "done"
    /\ rq[r].result.kind = "response" => AISucceeded(r)

\* C12: with every external call returning or raising, a request that has
\* arrived eventually ends; an ended request holds either the success
\* response with the generated text or one error with no text, a running
\* request holds nothing, and an answer once given never changes.
C12_OneTerminalOutcome ==
    /\ [](\A r \in Reqs :
             /\ Terminal(r) => Outcome(r)
             /\ ~Terminal(r) => rq[r].result = NoResult)
    /\ [][\A r \in Reqs :
             rq[r].result # NoResult => rq'[r].result = rq[r].result]_vars
    /\ \A r \in Reqs : (rq[r].pc # "idle") ~> Terminal(r)

C12_Witness ==
    \E r \in Reqs, q \in Reqs :
        /\ rq[r].pc = "done" /\ rq[r].result.kind = "response"
        /\ rq[q].pc = "failed" /\ rq[q].result.kind = "error"
        /\ rq[q].cause = "insert"

\* ------------------------------------------------------------------ C13
\* the moves of the state machine
Forward ==
    {<<"Received", "LoadingHistory">>, <<"LoadingHistory", "Generating">>,
     <<"Generating", "Persisting">>, <<"Persisting", "Done">>}

\* C13: every step of a request either stays in its state, moves it one
\* state forward in the order LoadingHistory, Generating, Persisting, Done,
\* or moves it into Failed; the history is fetched in the step that enters
\* Generating and the insert is executed only in Persisting; Done and
\* Failed are never left.
C13_StrictOrder ==
    [][\A r \in Reqs :
          LET a == State(rq[r])
              b == State(rq'[r])
          IN  /\ a # b => (<<a, b>> \in Forward \/ b = "Failed")
              /\ a \in {"Done", "Failed"} => rq'[r] = rq[r]
              /\ rq'[r].ai_calls # rq[r].ai_calls =>
                    /\ a = "LoadingHistory" /\ b = "Generating"
                    /\ rq[r].pc = "load"
                    /\ rq'[r].snap = store
              /\ rq'[r].inserts # rq[r].inserts =>
                    /\ a = "Persisting"
                    /\ AISucceeded(r)
       ]_vars

C13_Witness ==
    \E r \in Reqs, q \in Reqs :
        /\ State(rq[r]) = "Done" /\ rq[r].ai_calls = 1 /\ rq[r].inserts = 1
        /\ State(rq[q]) = "Persisting" /\ rq[q].ai_calls = 1

\* ------------------------------------------------------------------ C15
\* C15: no step removes or alters a committed row: every row of the table
\* is in the table after the step, with the same user_id, session_id,
\* prompt, response and created_at.
C15_AppendOnly ==
    [][\A t \in store : t \in store']_vars

C15_Witness ==
    \E r \in Reqs :
        /\ rq[r].pc = "done"
        /\ \E t \in store : t.by = r
        /\ \E t \in store :
              /\ t.by = 0
              /\ t.user_id = rq[r].user_id
              /\ t.session_id = rq[r].session_id

\* ------------------------------------------------------------------ C16
\* C16 as stated: a request that generated, inserted and committed has its
\* own turn in the table, once; every turn in the history a request loaded
\* was committed when it read, and is not the turn of a request that has
\* not committed or that has failed.
C16_AsStated ==
    \A r \in Reqs :
        /\ rq[r].pc = "done" =>
              /\ Cardinality({t \in store : t.by = r}) = 1
              /\ \A t \in store : t.by = r => TurnFields(t) = TurnOf(r)
        /\ InFlight(r) =>
              \A i \in 1..Len(rq[r].history_records) :
                  \E t \in rq[r].snap :
                      /\ rq[r].history_records[i] = <<t.prompt, t.response>>
                      /\ t \in store
                      /\ t.by # 0 => rq[t.by].pc = "done"

\* ------------------------------------------------------------------ C17
\* C17: a request that has returned the success response has its turn
\* (user, session, prompt, text) committed in the table, and the text it
\* returned is the response stored in that turn.
C17_ResponseIsStored ==
    \A r \in Reqs :
        rq[r].pc = "done" =>
            /\ rq[r].result.kind = "response"
            /\ rq[r].result.text # NoText
            /\ \E t \in store :
                  /\ t.by = r
                  /\ t.user_id = rq[r].user_id
                  /\ t.session_id = rq[r].session_id
                  /\ t.prompt = rq[r].prompt
                  /\ t.response = rq[r].result.text

C17_Witness ==
    \E r \in Reqs :
        /\ rq[r].pc = "done"
        /\ \E t \in store : t.by = r /\ t.response = rq[r].result.text

\* ------------------------------------------------------------------ C18
\* C18 as stated: a request that has ended with an error of any class has
\* no turn in the table.
C18_AsStated ==
    \A r \in Reqs :
        rq[r].result.kind = "error" => {t \in store : t.by = r} = {}

\* ------------------------------------------------------------------ C19
\* the rows of the table at r's read that carry r's user and session
OwnRows(r) ==
    {t \in rq[r].snap :
        t.user_id = rq[r].user_id /\ t.session_id = rq[r].session_id}

\* C19: every turn in the history a request loaded carries the request's
\* user_id and session_id; every row a request writes carries its own
\* user_id and session_id; the context a request built is the one it would
\* have built had the table held the rows of its own pair only.
C19_SessionIsolation ==
    \A r \in Reqs :
        /\ InFlight(r) =>
              /\ \A t \in rq[r].snap :
                    (\E i \in 1..Len(rq[r].history_records) :
                        rq[r].history_records[i] = <<t.prompt, t.response>>)
                    => t \in OwnRows(r)
              /\ Len(rq[r].history_records)
                    = Min(HistoryLimit, Cardinality(OwnRows(r)))
              /\ rq[r].contents =
                    Contents(SelectHistory(OwnRows(r), rq[r].user_id,
                                           rq[r].session_id), rq[r].prompt)
        /\ \A t \in store \cup rq[r].pending :
              t.by = r => /\ t.user_id = rq[r].user_id
                          /\ t.session_id = rq[r].session_id

C19_Witness ==
    \E r \in Reqs, q \in Reqs :
        /\ InFlight(r)
        /\ Len(rq[r].history_records) >= 1
        /\ rq[q].pc = "done"
        /\ <<rq[q].user_id, rq[q].session_id>> # <<rq[r].user_id, rq[r].session_id>>
        /\ \E t \in rq[r].snap : t.by = q

====
